---- MODULE Spec2Model ----
(***************************************************************************)
(* Error-handling and retry subsystem of the Tamagui/Cognito template:     *)
(* the central ErrorLogger (throttle + capped queue), AsyncErrorHandler    *)
(* (retry loop with capped exponential backoff, global handlers),          *)
(* TamaguiErrorBoundary and authService.formatError.                       *)
(*                                                                         *)
(* Time is the value of Date.now() in milliseconds.  Error messages are    *)
(* sequences of UTF-16 code units, so that hashMessage can be computed the *)
(* way the code computes it.                                               *)
(***************************************************************************)
EXTENDS Integers, Sequences, FiniteSets, TLC

VARIABLES
    now,            \* Date.now()
    errorQueue,     \* ErrorLogger.errorQueue
    errorCounts,    \* ErrorLogger.errorCounts : hash key -> {count, lastSeen}
    idSeq,          \* number of ids generateErrorId has handed out
    passTimes,      \* history: per message, the times of its last (up to 4) recorded errors
    lastLogged,     \* history: per message, the time of the latest logError call with it
    windowStart,    \* history: per hash key, when and by which message its count was last set to 1
    lastCall,       \* history: what the most recent logError call saw and did
    rpc,            \* handleAsyncWithRetry: where the call is
    config,         \* handleAsyncWithRetry: config (defaults merged with retryConfig)
    options,        \* handleAsyncWithRetry: category, severity, customMessage
    attempt,        \* handleAsyncWithRetry: the loop's attempt counter
    lastError,      \* handleAsyncWithRetry: lastError
    outcome,        \* handleAsyncWithRetry: how the returned promise settled
    invocations,    \* history: number of times operation() was called
    thrownLog,      \* history: what each failed invocation threw
    waits,          \* history: the delays passed to this.delay, in order
    successAt,      \* history: the invocation that succeeded (0: none)
    bstate,         \* TamaguiErrorBoundary: this.state
    bpc,            \* TamaguiErrorBoundary: where React is in handling a render error
    lastRender,     \* TamaguiErrorBoundary: what the latest render() returned
    bThrows,        \* history: number of render errors thrown below the boundary
    fmtIn,          \* authService.formatError: the service version and error of the latest call
    fmtOut,         \* authService.formatError: the Error it returned
    hookOptions,    \* useErrorHandler: defaultCategory, defaultSeverity, showToastByDefault
    errorCountRef,  \* useErrorHandler: errorCountRef.current
    lastErrorTimeRef, \* useErrorHandler: lastErrorTimeRef.current
    toasts,         \* history: when handleError showed an error toast, and after how many
                    \* clearErrorState calls
    clears,         \* history: number of clearErrorState calls
    handled,        \* history: what the latest handleError call returned and whether it
                    \* showed a toast
    asyncPc,        \* handleAsync: "idle", "awaitOp", "resolved" or "rejected"
    asyncOptions,   \* handleAsync: category and severity after the defaults
    asyncOutcome,   \* handleAsync: how the returned promise settled
    asyncInvocations, \* history: number of times handleAsync invoked operation()
    authState,      \* AuthProvider: the authState of useState
    session,        \* the identity SDK: the signed-in user, or Null
    authPc,         \* AuthProvider: where each of its async functions is
    authLocal,      \* AuthProvider: the `user` local of initializeAuth / refreshUser
    authLog,        \* history: what each function last threw to its caller, and whether
                    \* signOut has completed with no signIn completed since
    rootView,       \* RootNavigator: what its latest render returned
    routeParams,    \* EmailVerificationScreen: route.params (context, autoSent)
    code,           \* EmailVerificationScreen: the code input, as UTF-16 code units
    formState,      \* EmailVerificationScreen: the formState of useState
    verifyPc,       \* EmailVerificationScreen: where handleVerifyCode is
    resendPc,       \* EmailVerificationScreen: where handleResendCode is
    submission,     \* history: what the latest handleVerifyCode call awaited and how it went
    apiPc,          \* handleApiRequest: "idle", "awaitRequest", "awaitJson", "resolved", "rejected"
    apiOptions,     \* handleApiRequest: parseResponse, category and severity
    apiOutcome,     \* handleApiRequest: how the returned promise settled
    requestInvocations, \* history: times the current handleApiRequest call invoked request()
    apiLogs         \* history: the userAction of each logError call of the current call

retryVars == <<rpc, config, options, attempt, lastError, outcome,
               invocations, thrownLog, waits, successAt>>

boundaryVars == <<bstate, bpc, lastRender, bThrows>>

formatVars == <<fmtIn, fmtOut>>

hookVars == <<hookOptions, errorCountRef, lastErrorTimeRef, toasts, clears, handled>>

asyncVars == <<asyncPc, asyncOptions, asyncOutcome, asyncInvocations>>

authVars == <<authState, session, authPc, authLocal, authLog, rootView>>

verifyVars == <<routeParams, code, formState, verifyPc, resendPc, submission>>

apiVars == <<apiPc, apiOptions, apiOutcome, requestInvocations, apiLogs>>

screenVars == <<authVars, verifyVars, apiVars>>

loggerVars == <<errorQueue, errorCounts, idSeq, passTimes, lastLogged, windowStart, lastCall>>

----------------------------------------------------------------------------
(* Values *)

Undefined == "undefined"

\* Messages (code units): "Aa" and "BB" have the same hashMessage, "C" another.
MsgAa == <<65, 97>>
MsgBB == <<66, 66>>
MsgC  == <<67>>
Messages == {MsgAa, MsgBB, MsgC}

UI_ERROR          == "UI_ERROR"
API_ERROR         == "API_ERROR"
NAVIGATION_ERROR  == "NAVIGATION_ERROR"
PERFORMANCE_ERROR == "PERFORMANCE_ERROR"
UNHANDLED_ERROR   == "UNHANDLED_ERROR"
ErrorCategory ==
    {UI_ERROR, API_ERROR, NAVIGATION_ERROR, PERFORMANCE_ERROR, UNHANDLED_ERROR}

LOW      == "low"
MEDIUM   == "medium"
HIGH     == "high"
CRITICAL == "critical"
ErrorSeverity == {LOW, MEDIUM, HIGH, CRITICAL}

----------------------------------------------------------------------------
(* ErrorLogger *)

maxQueueSize == 100
throttleWindow == 5000
maxIdenticalErrors == 3

\* (hash << 5) - hash + char, then hash & hash: 31 * hash + char wrapped into
\* the signed 32-bit range.  Computed on 16-bit halves, so that no intermediate
\* value leaves the 32-bit range either.
hashStep(hash, char) ==
    LET lo == hash % 65536
        hi == ((hash - lo) \div 65536) % 65536
        lo31 == 31 * lo + char
        hi31 == (31 * hi + (lo31 \div 65536)) % 65536
    IN  (IF hi31 >= 32768 THEN hi31 - 65536 ELSE hi31) * 65536 + (lo31 % 65536)

\* The loop body as a function, so that it is applied to values.
hashStepOf ==
    [hash \in (-2147483647 - 1)..2147483647, char \in 0..65535 |-> hashStep(hash, char)]

\* The loop of hashMessage, a left fold of hashStep over the code units (the
\* recursion takes four code units at a time where it can).  hash.toString()
\* is one-to-one on integers: the integer stands for the key.
hashMessage(message) ==
    LET hash[i \in 0..Len(message)] ==
            IF i = 0 THEN 0
            ELSE IF i % 4 = 0
            THEN hashStepOf[hashStepOf[hashStepOf[hashStepOf[
                     hash[i - 4], message[i - 3]], message[i - 2]], message[i - 1]],
                     message[i]]
            ELSE hashStepOf[hash[i - 1], message[i]]
    IN  hash[Len(message)]

outsideThrottleWindow_Inclusive(t, lastSeen) == t - lastSeen >= throttleWindow
outsideThrottleWindow(t, lastSeen) == t - lastSeen > throttleWindow

tooManyIdentical_OffByOne(count) == count > maxIdenticalErrors + 1
tooManyIdentical(count) == count > maxIdenticalErrors

\* shouldThrottleError: the answer and the errorCounts map it leaves behind.
shouldThrottleError(counts, message, t) ==
    LET errorKey == hashMessage(message)
        fresh == [count |-> 1, lastSeen |-> t]
    IN  IF errorKey \notin DOMAIN counts
        THEN [throttled |-> FALSE, counts |-> (errorKey :> fresh) @@ counts]
        ELSE IF outsideThrottleWindow(t, counts[errorKey].lastSeen)
        THEN [throttled |-> FALSE, counts |-> [counts EXCEPT ![errorKey] = fresh]]
        ELSE LET c == counts[errorKey].count + 1
             IN  [throttled |-> tooManyIdentical(c),
                  counts |-> [counts EXCEPT ![errorKey] = [count |-> c, lastSeen |-> t]]]

recordError_NoShift(queue, error) == Append(queue, error)
recordError(queue, error) ==
    LET pushed == Append(queue, error)
    IN  IF Len(pushed) > maxQueueSize THEN Tail(pushed) ELSE pushed

queueAfter_AlwaysRecords(queue, error, throttled) == recordError(queue, error)
\* logError: `if (this.shouldThrottleError(error.message)) return errorId;`
\* before this.recordError(structuredError)
queueAfter(queue, error, throttled) ==
    IF throttled THEN queue ELSE recordError(queue, error)

\* getErrorStats
getErrorStats(queue) ==
    [totalErrors |-> Len(queue),
     categories |-> [c \in {queue[i].category : i \in 1..Len(queue)} |->
                        Cardinality({i \in 1..Len(queue) : queue[i].category = c})]]

Logger ==
    [errorQueue |-> errorQueue, errorCounts |-> errorCounts, idSeq |-> idSeq,
     passTimes |-> passTimes, lastLogged |-> lastLogged, windowStart |-> windowStart,
     lastCall |-> lastCall,
     errorId |-> 0]

LastFour(s) == IF Len(s) > 4 THEN Tail(s) ELSE s

\* logError on logger state L at time t; errorId is the id it returns.
logError(L, t, message, category, severity, context) ==
    LET errorId == L.idSeq + 1
        key == hashMessage(message)
        known == key \in DOMAIN L.errorCounts
        thr == shouldThrottleError(L.errorCounts, message, t)
        structuredError ==
            [id |-> errorId, message |-> message, category |-> category,
             severity |-> severity, context |-> context, timestamp |-> t]
        call == [message |-> message, at |-> t, throttled |-> thr.throttled,
                 category |-> category, severity |-> severity, context |-> context,
                 known |-> known,
                 prevSameAt |-> IF message \in DOMAIN L.lastLogged
                                THEN L.lastLogged[message] ELSE -1,
                 prevCount |-> IF known THEN L.errorCounts[key].count ELSE 0,
                 prevLastSeen |-> IF known THEN L.errorCounts[key].lastSeen ELSE 0,
                 prevWindow |-> IF known THEN L.windowStart[key]
                                ELSE [at |-> 0, by |-> <<>>],
                 prevLen |-> Len(L.errorQueue)]
        opened == IF thr.counts[key].count = 1
                  THEN (key :> [at |-> t, by |-> message]) @@ L.windowStart
                  ELSE L.windowStart
        passed == IF message \in DOMAIN L.passTimes
                  THEN [L.passTimes EXCEPT ![message] = LastFour(Append(@, t))]
                  ELSE (message :> <<t>>) @@ L.passTimes
        logged == (message :> t) @@ L.lastLogged
    IN  IF thr.throttled
        THEN [L EXCEPT !.errorCounts = thr.counts, !.idSeq = errorId,
                       !.errorQueue = queueAfter(L.errorQueue, structuredError, thr.throttled),
                       !.lastLogged = logged,
                       !.windowStart = opened,
                       !.lastCall = call, !.errorId = errorId]
        ELSE [L EXCEPT !.errorCounts = thr.counts, !.idSeq = errorId,
                       !.errorQueue = queueAfter(L.errorQueue, structuredError, thr.throttled),
                       !.passTimes = passed,
                       !.lastLogged = logged,
                       !.windowStart = opened,
                       !.lastCall = call, !.errorId = errorId]

SetLogger(L) ==
    /\ errorQueue' = L.errorQueue
    /\ errorCounts' = L.errorCounts
    /\ idSeq' = L.idSeq
    /\ passTimes' = L.passTimes
    /\ lastLogged' = L.lastLogged
    /\ windowStart' = L.windowStart
    /\ lastCall' = L.lastCall

NoCall == [message |-> <<>>, at |-> 0, throttled |-> FALSE,
           category |-> Undefined, severity |-> Undefined,
           context |-> [userAction |-> Undefined], known |-> FALSE,
           prevSameAt |-> -1,
           prevCount |-> 0, prevLastSeen |-> 0,
           prevWindow |-> [at |-> 0, by |-> <<>>], prevLen |-> 0]

LoggerInit ==
    /\ errorQueue = <<>>
    /\ errorCounts = <<>>
    /\ idSeq = 0
    /\ passTimes = <<>>
    /\ lastLogged = <<>>
    /\ windowStart = <<>>
    /\ lastCall = NoCall

\* The exported logError(error, category, severity, context)
LogErrorCall(message, category, severity) ==
    /\ SetLogger(logError(Logger, now, message, category, severity,
                          [userAction |-> Undefined]))
    /\ UNCHANGED now

\* clearQueue
ClearQueue ==
    /\ errorQueue # <<>>
    /\ errorQueue' = <<>>
    /\ UNCHANGED <<now, errorCounts, idSeq, passTimes, lastLogged, windowStart, lastCall>>

\* The clock advances (Date.now() read at a later moment).
Tick(d) ==
    /\ now' = now + d
    /\ UNCHANGED loggerVars


----------------------------------------------------------------------------
(* AsyncErrorHandler.handleAsyncWithRetry *)

\* customMessage values: not given, given by the caller
NoMessage == [text |-> Undefined, N |-> 0]
CustomMessage == [text |-> "Custom message", N |-> 0]

\* let lastError: Error, before the first assignment
NoError ==
    [defined |-> FALSE, message |-> <<>>, origin |-> 0, wrapped |-> FALSE,
     retryAttempts |-> -1, customMessage |-> NoMessage, errorId |-> 0]

Min(a, b) == IF a <= b THEN a ELSE b
Max(a, b) == IF a >= b THEN a ELSE b

\* Math.pow on the integers the model uses (exponents are attempt - 1 >= 0).
RECURSIVE Pow(_, _)
Pow(b, n) == IF n <= 0 THEN 1 ELSE b * Pow(b, n - 1)

defaultRetryConfig ==
    [maxRetries |-> 3, baseDelay |-> 1000, maxDelay |-> 10000, backoffMultiplier |-> 2]

\* { ...this.defaultRetryConfig, ...retryConfig }
mergeConfig(retryConfig) == retryConfig @@ defaultRetryConfig

\* error instanceof Error ? error : new Error(String(error)); origin is the
\* invocation that threw it, wrapped whether a new Error was made around it.
\* retryAttempts, customMessage and errorId are the properties the handlers add
\* to the error (-1, NoMessage, 0: not set).
toError(thrown, origin) ==
    [defined |-> TRUE, message |-> thrown.text, origin |-> origin,
     wrapped |-> ~thrown.isError,
     retryAttempts |-> -1, customMessage |-> NoMessage, errorId |-> 0]

nextAttempt_NoIncrement(a) == a
nextAttempt(a) == a + 1

retryDelay_ExponentAttempt(cfg, a) ==
    Min(cfg.baseDelay * Pow(cfg.backoffMultiplier, a), cfg.maxDelay)
retryDelay_NoCap(cfg, a) ==
    cfg.baseDelay * Pow(cfg.backoffMultiplier, a - 1)
\* Math.min(baseDelay * Math.pow(backoffMultiplier, attempt - 1), maxDelay)
retryDelay(cfg, a) ==
    Min(cfg.baseDelay * Pow(cfg.backoffMultiplier, a - 1), cfg.maxDelay)

isLastAttempt_OneMore(a, cfg) == a > cfg.maxRetries + 1
\* attempt > config.maxRetries
isLastAttempt(a, cfg) == a > cfg.maxRetries

retrySeverity_AlwaysLow(a, cfg, severity) == LOW
\* attempt <= config.maxRetries ? ErrorSeverity.LOW : severity
retrySeverity(a, cfg, severity) == IF a <= cfg.maxRetries THEN LOW ELSE severity

\* `Operation succeeded after ${attempt} retries` (attempt is one digit here)
SucceededAfter(n) ==
    <<79, 112, 101, 114, 97, 116, 105, 111, 110, 32, 115, 117, 99, 99, 101, 101, 100, 101, 100, 32, 97, 102, 116, 101, 114, 32>>
    \o <<48 + n>> \o <<32, 114, 101, 116, 114, 105, 101, 115>>

\* `Operation failed after ${config.maxRetries} attempts`
FailedAfter(n) == [text |-> "Operation failed after N attempts", N |-> n]

\* What line 136 throws: TypeError when the loop body never ran (lastError is
\* undefined and line 132 assigns a property of it), else lastError with the
\* retry info added.
TypeErrorValue ==
    [defined |-> TRUE, message |-> <<84, 121, 112, 101, 69, 114, 114, 111, 114>>, origin |-> 0,
     wrapped |-> FALSE, retryAttempts |-> -1, customMessage |-> NoMessage, errorId |-> 0]

exhaustedError_Generic(err, cfg, customMessage) ==
    [defined |-> TRUE, message |-> <<>>, origin |-> 0, wrapped |-> FALSE,
     retryAttempts |-> cfg.maxRetries,
     customMessage |-> IF customMessage # NoMessage THEN customMessage
                       ELSE FailedAfter(cfg.maxRetries),
     errorId |-> 0]
exhaustedError(err, cfg, customMessage) ==
    IF ~err.defined THEN TypeErrorValue
    ELSE [err EXCEPT !.retryAttempts = cfg.maxRetries,
                     !.customMessage = IF customMessage # NoMessage THEN customMessage
                                       ELSE FailedAfter(cfg.maxRetries)]

\* The defaults of the options destructuring; no customMessage is NoMessage
retryOptionDefaults ==
    [category |-> API_ERROR, severity |-> MEDIUM, customMessage |-> NoMessage]

RetryIdle ==
    /\ rpc = "idle"
    /\ config = defaultRetryConfig
    /\ options = retryOptionDefaults
    /\ attempt = 0
    /\ lastError = NoError
    /\ outcome = [kind |-> "pending"]
    /\ invocations = 0
    /\ thrownLog = <<>>
    /\ waits = <<>>
    /\ successAt = 0

\* The head of the while loop, run when the call starts and after each delay:
\* either operation() is invoked and awaited, or the loop is left and
\* lastError is thrown.
LoopHead(cfg, a, err, custom) ==
    IF a <= cfg.maxRetries
    THEN /\ invocations' = invocations + 1
         /\ rpc' = "awaitOp"
         /\ outcome' = outcome
    ELSE /\ invocations' = invocations
         /\ rpc' = "rejected"
         /\ outcome' = [kind |-> "rejected", error |-> exhaustedError(err, cfg, custom)]

\* handleAsyncWithRetry(operation, retryConfig, opts): up to the first await
StartRetry(retryConfig, opts) ==
    /\ rpc = "idle"
    /\ config' = mergeConfig(retryConfig)
    /\ options' = opts @@ retryOptionDefaults
    /\ attempt' = 0
    /\ lastError' = NoError
    /\ LoopHead(mergeConfig(retryConfig), 0, NoError,
                (opts @@ retryOptionDefaults).customMessage)
    /\ UNCHANGED <<now, loggerVars, thrownLog, waits, successAt>>

succeededAfterRetries_Always(a) == TRUE
\* if (attempt > 0): the recovery is logged
succeededAfterRetries(a) == a > 0

\* await operation() resolves after dur ms: lines 80-96
OperationResolves(value, dur) ==
    /\ rpc = "awaitOp"
    /\ now' = now + dur
    /\ IF succeededAfterRetries(attempt)
       THEN SetLogger(logError(Logger, now + dur,
                               SucceededAfter(attempt),
                               API_ERROR, LOW,
                               [userAction |-> "retry_success", attempts |-> attempt]))
       ELSE UNCHANGED loggerVars
    /\ rpc' = "resolved"
    /\ outcome' = [kind |-> "resolved", value |-> value]
    /\ successAt' = invocations
    /\ UNCHANGED <<config, options, attempt, lastError, invocations, thrownLog, waits>>

\* await operation() rejects after dur ms: lines 97-136
OperationRejects(thrown, dur) ==
    /\ rpc = "awaitOp"
    /\ now' = now + dur
    /\ LET err == toError(thrown, invocations)
           a == nextAttempt(attempt)
           last == isLastAttempt(a, config)
       IN  /\ lastError' = err
           /\ attempt' = a
           /\ thrownLog' = Append(thrownLog, thrown)
           /\ SetLogger(logError(Logger, now + dur, err.message, options.category,
                                 retrySeverity(a, config, options.severity),
                                 [userAction |-> "async_operation_retry", attempt |-> a,
                                  maxRetries |-> config.maxRetries,
                                  isLastAttempt |-> last]))
           /\ IF last
              THEN /\ rpc' = "rejected"
                   /\ outcome' = [kind |-> "rejected",
                                  error |-> exhaustedError(err, config, options.customMessage)]
                   /\ waits' = waits
              ELSE /\ rpc' = "delaying"
                   /\ outcome' = outcome
                   /\ waits' = Append(waits, retryDelay(config, a))
    /\ UNCHANGED <<config, options, invocations, successAt>>

DelayElapses_TimerLost ==
    /\ rpc = "delaying"
    /\ UNCHANGED <<now, loggerVars, retryVars>>
\* await this.delay(delay) resolves: setTimeout fires after max(delay, 0) ms,
\* then the loop head runs again
DelayElapses ==
    /\ rpc = "delaying"
    /\ now' = now + Max(waits[Len(waits)], 0)
    /\ LoopHead(config, attempt, lastError, options.customMessage)
    /\ UNCHANGED <<loggerVars, config, options, attempt, lastError, thrownLog, waits,
                   successAt>>


----------------------------------------------------------------------------
(* Entry points of the logger: the typed wrappers and the global handlers *)

getApiErrorSeverity_Info(statusCode) ==
    IF statusCode = 0 THEN MEDIUM
    ELSE IF statusCode >= 500 THEN HIGH
    ELSE IF statusCode >= 400 THEN MEDIUM
    ELSE "info"
\* getApiErrorSeverity(statusCode); 0 stands for an absent statusCode, which
\* `!statusCode` treats like 0
getApiErrorSeverity(statusCode) ==
    IF statusCode = 0 THEN MEDIUM
    ELSE IF statusCode >= 500 THEN HIGH
    ELSE IF statusCode >= 400 THEN MEDIUM
    ELSE LOW

\* logApiError(error, endpoint, method, statusCode)
LogApiErrorCall(message, statusCode) ==
    /\ SetLogger(logError(Logger, now, message, API_ERROR, getApiErrorSeverity(statusCode),
                          [userAction |-> Undefined, statusCode |-> statusCode]))
    /\ UNCHANGED now

\* logNavigationError(error, fromScreen, toScreen)
LogNavigationErrorCall(message) ==
    /\ SetLogger(logError(Logger, now, message, NAVIGATION_ERROR, MEDIUM,
                          [userAction |-> Undefined, fromScreen |-> "from"]))
    /\ UNCHANGED now

\* logPerformanceError(error, performanceMetric, value)
LogPerformanceErrorCall(message) ==
    /\ SetLogger(logError(Logger, now, message, PERFORMANCE_ERROR, LOW,
                          [userAction |-> Undefined, performanceMetric |-> "metric"]))
    /\ UNCHANGED now

\* "Unhandled promise rejection"
UnhandledRejectionMessage ==
    <<85, 110, 104, 97, 110, 100, 108, 101, 100, 32, 112, 114, 111, 109, 105, 115, 101,
      32, 114, 101, 106, 101, 99, 116, 105, 111, 110>>

\* event.reason || event.error || new Error("Unhandled promise rejection"),
\* as the message of the Error that is logged; an absent reason or error is
\* [present |-> FALSE]
rejectionMessage(event) ==
    IF event.reason.present THEN event.reason.text
    ELSE IF event.error.present THEN event.error.text
    ELSE UnhandledRejectionMessage

\* unhandledRejectionHandler(event)
UnhandledRejection(event) ==
    /\ SetLogger(logError(Logger, now, rejectionMessage(event), UNHANDLED_ERROR, HIGH,
                          [userAction |-> "unhandled_promise_rejection"]))
    /\ UNCHANGED now

\* The handler given to ErrorUtils.setGlobalHandler
GlobalError(message, isFatal) ==
    /\ SetLogger(logError(Logger, now, message, UNHANDLED_ERROR, CRITICAL,
                          [userAction |-> "global_error", isFatal |-> isFatal]))
    /\ UNCHANGED now

----------------------------------------------------------------------------
(* handleAsync *)

asyncDefaults == [category |-> API_ERROR, severity |-> MEDIUM]

AsyncIdle ==
    /\ asyncPc = "idle"
    /\ asyncOptions = asyncDefaults
    /\ asyncOutcome = [kind |-> "pending"]
    /\ asyncInvocations = 0

\* handleAsync(operation, opts): up to the await
StartAsync(opts) ==
    /\ asyncPc = "idle"
    /\ asyncOptions' = opts @@ asyncDefaults
    /\ asyncPc' = "awaitOp"
    /\ asyncInvocations' = asyncInvocations + 1
    /\ UNCHANGED <<now, loggerVars, asyncOutcome>>

\* wrapPromise(promise, opts): handleAsync(() => promise, opts)
wrapPromise(opts) == StartAsync(opts)

\* await operation() resolves
AsyncResolves(value) ==
    /\ asyncPc = "awaitOp"
    /\ asyncPc' = "resolved"
    /\ asyncOutcome' = [kind |-> "resolved", value |-> value]
    /\ UNCHANGED <<now, loggerVars, asyncOptions, asyncInvocations>>

attachErrorId_Dropped(err, errorId) == err
\* (err as any).errorId = errorId
attachErrorId(err, errorId) == [err EXCEPT !.errorId = errorId]

\* await operation() rejects: the catch block
AsyncRejects(thrown) ==
    /\ asyncPc = "awaitOp"
    /\ LET err == toError(thrown, asyncInvocations)
           L == logError(Logger, now, err.message, asyncOptions.category,
                         asyncOptions.severity, [userAction |-> "async_operation"])
       IN  /\ SetLogger(L)
           /\ asyncOutcome' = [kind |-> "rejected",
                               error |-> attachErrorId(err, L.errorId)]
    /\ asyncPc' = "rejected"
    /\ UNCHANGED <<now, asyncOptions, asyncInvocations>>

----------------------------------------------------------------------------
(* useErrorHandler *)

hookDefaults ==
    [defaultCategory |-> UI_ERROR, defaultSeverity |-> MEDIUM, showToastByDefault |-> TRUE]

\* useErrorHandler(opts): the destructuring with defaults
useErrorHandler(opts) == opts @@ hookDefaults

useApiErrorHandler == useErrorHandler([defaultCategory |-> API_ERROR])

useNavigationErrorHandler ==
    useErrorHandler([defaultCategory |-> NAVIGATION_ERROR, defaultSeverity |-> MEDIUM])

usePerformanceErrorHandler ==
    useErrorHandler([defaultCategory |-> PERFORMANCE_ERROR, defaultSeverity |-> LOW,
                     showToastByDefault |-> FALSE])

toastBurstWindow == 1000

maxToastBurst == 3

NotHandled == [errorId |-> 0, toast |-> FALSE, suppressed |-> FALSE]

HookRefsInit ==
    /\ errorCountRef = 0
    /\ lastErrorTimeRef = 0
    /\ toasts = <<>>
    /\ clears = 0
    /\ handled = NotHandled

tooManyToasts_OffByOne(count) == count > maxToastBurst + 1
\* errorCountRef.current > 3
tooManyToasts(count) == count > maxToastBurst

HookInit ==
    /\ hookOptions = useErrorHandler(<<>>)
    /\ HookRefsInit

\* handleError(error, errorOptions)
HandleError(message, errorOptions) ==
    LET inBurst == now - lastErrorTimeRef < toastBurstWindow
        count == IF inBurst THEN errorCountRef + 1 ELSE 1
        o == errorOptions @@ [category |-> hookOptions.defaultCategory,
                              severity |-> hookOptions.defaultSeverity,
                              showToast |-> hookOptions.showToastByDefault]
    IN  /\ errorCountRef' = count
        /\ IF inBurst /\ tooManyToasts(count)
           THEN LET L == logError(Logger, now, message, hookOptions.defaultCategory,
                                  hookOptions.defaultSeverity,
                                  [userAction |-> Undefined, throttled |-> TRUE,
                                   errorCount |-> count])
                IN  /\ SetLogger(L)
                    /\ handled' = [errorId |-> L.errorId, toast |-> FALSE,
                                   suppressed |-> TRUE]
                    /\ UNCHANGED <<lastErrorTimeRef, toasts>>
           ELSE LET L == logError(Logger, now, message, o.category, o.severity,
                                  [userAction |-> Undefined])
                IN  /\ lastErrorTimeRef' = now
                    /\ SetLogger(L)
                    /\ handled' = [errorId |-> L.errorId, toast |-> o.showToast,
                                   suppressed |-> FALSE]
                    /\ toasts' = IF o.showToast
                                 THEN Append(toasts, [at |-> now, clears |-> clears])
                                 ELSE toasts
        /\ UNCHANGED <<now, hookOptions, clears>>

\* clearErrorState()
ClearErrorState ==
    /\ errorCountRef' = 0
    /\ lastErrorTimeRef' = 0
    /\ clears' = clears + 1
    /\ UNCHANGED <<now, loggerVars, hookOptions, toasts, handled>>

----------------------------------------------------------------------------
(* TamaguiErrorBoundary *)

\* JavaScript values a component can throw and the state can hold
JsUndefined == [kind |-> "undefined", message |-> <<>>]
JsNull == [kind |-> "null", message |-> <<>>]
JsError(message) == [kind |-> "Error", message |-> message]

\* ToBoolean, on the values above
Truthy(v) == v.kind \notin {"undefined", "null"}

\* constructor: this.state
boundaryInitialState ==
    [hasError |-> FALSE, error |-> JsUndefined, errorInfo |-> Undefined, errorId |-> 0]

\* static getDerivedStateFromError(error), merged into the state by React
getDerivedStateFromError(st, error) == [st EXCEPT !.hasError = TRUE, !.error = error]

\* render(): the fallback UI (custom or default) or this.props.children
render(st) == IF st.hasError /\ Truthy(st.error) THEN "fallback" ELSE "children"

\* handleRetry: setState({hasError: false, error, errorInfo, errorId: undefined})
handleRetry(st) ==
    [st EXCEPT !.hasError = FALSE, !.error = JsUndefined,
               !.errorInfo = Undefined, !.errorId = 0]

BoundaryInit ==
    /\ bstate = boundaryInitialState
    /\ bpc = "rendered"
    /\ lastRender = render(boundaryInitialState)
    /\ bThrows = 0

\* A descendant throws `thrown` while the children are rendered: React calls
\* getDerivedStateFromError and schedules the boundary's re-render.
ChildThrows(thrown) ==
    /\ bpc = "rendered"
    /\ lastRender = "children"
    /\ bstate' = getDerivedStateFromError(bstate, thrown)
    /\ bpc' = "derived"
    /\ bThrows' = bThrows + 1
    /\ UNCHANGED <<now, loggerVars, lastRender>>

\* React re-renders the boundary with the derived state.  When render() hands
\* back the children, the descendant throws again: the boundary has failed to
\* contain the error, which goes to the nearest boundary above it.
RenderAfterError ==
    /\ bpc = "derived"
    /\ lastRender' = render(bstate)
    /\ bpc' = IF render(bstate) = "fallback" THEN "committing" ELSE "failed"
    /\ UNCHANGED <<now, loggerVars, bstate, bThrows>>

\* componentDidCatch(error, errorInfo): log, setState({errorInfo, errorId}),
\* and the re-render that setState causes
ComponentDidCatch ==
    /\ bpc = "committing"
    /\ LET L == logError(Logger, now, bstate.error.message, UI_ERROR, HIGH,
                         [userAction |-> "component_render",
                          errorBoundary |-> "TamaguiErrorBoundary"])
           st == [bstate EXCEPT !.errorInfo = "componentStack", !.errorId = L.errorId]
       IN  /\ SetLogger(L)
           /\ bstate' = st
           /\ lastRender' = render(st)
    /\ bpc' = "rendered"
    /\ UNCHANGED <<now, bThrows>>

\* The fallback's retry button (onRetry / resetError): handleRetry and the
\* re-render that setState causes
HandleRetry ==
    /\ bpc = "rendered"
    /\ lastRender = "fallback"
    /\ bstate' = handleRetry(bstate)
    /\ lastRender' = render(handleRetry(bstate))
    /\ UNCHANGED <<now, loggerVars, bpc, bThrows>>

----------------------------------------------------------------------------
(* authService.formatError *)

\* errorMessages of src/services/auth.ts
errorMessagesBasic ==
    [UserNotFoundException |-> "User not found. Please check your email and try again.",
     NotAuthorizedException |-> "Incorrect email or password.",
     UserNotConfirmedException |-> "Please verify your email before signing in.",
     CodeMismatchException |-> "Invalid verification code. Please try again.",
     ExpiredCodeException |-> "Verification code has expired. Please request a new one.",
     LimitExceededException |-> "Too many attempts. Please try again later.",
     UsernameExistsException |-> "An account with this email already exists.",
     InvalidPasswordException |-> "Password does not meet requirements.",
     TooManyRequestsException |-> "Too many requests. Please wait before trying again.",
     NetworkError |-> "Network error. Please check your connection and try again."]

\* errorMessages of the extended auth service
errorMessagesExtended ==
    [UserNotFoundException |->
        "No account found with this email address. Please check your email or create a new account.",
     NotAuthorizedException |->
        "Incorrect email or password. Please check your credentials and try again.",
     UserNotConfirmedException |->
        "Please verify your email address before signing in. Check your inbox for a verification code.",
     CodeMismatchException |->
        "The verification code you entered is incorrect. Please check the code and try again.",
     ExpiredCodeException |->
        "Your verification code has expired. Please request a new code to continue.",
     LimitExceededException |->
        "Too many sign-in attempts. Please wait a few minutes before trying again.",
     UsernameExistsException |->
        "An account with this email address already exists. Please sign in instead.",
     InvalidPasswordException |->
        "Password doesn't meet the requirements. Please use at least 8 characters with a mix of letters and numbers.",
     TooManyRequestsException |->
        "Too many requests sent. Please wait a moment before trying again.",
     NetworkError |->
        "Network connection issue. Please check your internet connection and try again.",
     TooManyFailedAttemptsException |->
        "Account temporarily locked due to too many failed attempts. Please try again later.",
     InvalidParameterException |->
        "Invalid information provided. Please check your input and try again.",
     ResourceNotFoundException |->
        "Service temporarily unavailable. Please try again in a few moments."]

errorMessages(service) ==
    IF service = "basic" THEN errorMessagesBasic ELSE errorMessagesExtended

fallbackMessage(service) ==
    IF service = "basic" THEN "An unexpected error occurred. Please try again."
    ELSE "Something unexpected happened. Please try again or contact support if the problem continues."

\* ToBoolean on strings and undefined
TruthyString(v) == v \notin {Undefined, ""}

\* a || b
OrElse(a, b) == IF TruthyString(a) THEN a ELSE b

\* table[key]: undefined when the table has no such key
lookup(table, key) == IF key \in DOMAIN table THEN table[key] ELSE Undefined

errorCode_NameFirst(error) == OrElse(error.name, error.code)
\* const errorCode = error.code || error.name
errorCode(error) == OrElse(error.code, error.name)

\* formatError(error): the message of the Error it returns
formatError(service, error) ==
    [message |-> OrElse(OrElse(lookup(errorMessages(service), errorCode(error)),
                               error.message),
                        fallbackMessage(service))]

NoFormatCall == [service |-> "none", error |-> [code |-> Undefined, name |-> Undefined,
                                                 message |-> Undefined]]

FormatInit ==
    /\ fmtIn = NoFormatCall
    /\ fmtOut = [message |-> Undefined]

\* this.formatError(error), from a catch block of the auth service
FormatError(service, error) ==
    /\ fmtIn' = [service |-> service, error |-> error]
    /\ fmtOut' = formatError(service, error)

----------------------------------------------------------------------------
(* AuthProvider and RootNavigator *)

Null == "null"

User == "user1"

AuthOps ==
    {"initializeAuth", "signIn", "signUp", "signOut", "forgotPassword",
     "confirmResetPassword", "refreshUser"}

\* The functions that rethrow to their caller
ThrowingOps == {"signIn", "signUp", "signOut", "forgotPassword", "confirmResetPassword"}

\* The functions that only await one service call and keep user and isAuthenticated
FormOps == {"signUp", "forgotPassword", "confirmResetPassword"}

\* useState<AuthState>(...)
initialAuthState ==
    [user |-> Null, isLoading |-> TRUE, isAuthenticated |-> FALSE, error |-> Null]

RootNavigator_IgnoresLoading(st) == IF st.isAuthenticated THEN "app" ELSE "auth"
\* RootNavigator: the loading screen, the app stack or the auth stack
RootNavigator(st) ==
    IF st.isLoading THEN "loading"
    ELSE IF st.isAuthenticated THEN "app" ELSE "auth"

\* setAuthState(st) and the re-render of the consumers of the context
SetAuthState(st) ==
    /\ authState' = st
    /\ rootView' = RootNavigator(st)

\* setAuthState((prev) => ({...prev, isLoading: true, error: null}))
loadingState(prev) == [prev EXCEPT !.isLoading = TRUE, !.error = Null]

\* The catch blocks: error instanceof Error ? error.message : "... failed";
\* the service always throws the Error formatError built
failedState_ClearsUser(prev, sdkError) ==
    [user |-> Null, isLoading |-> FALSE, isAuthenticated |-> FALSE,
     error |-> formatError("basic", sdkError).message]
failedState(prev, sdkError) ==
    [prev EXCEPT !.isLoading = FALSE, !.error = formatError("basic", sdkError).message]

\* The provider is mounted and its effect has not run yet
AuthMounted ==
    /\ authState = initialAuthState
    /\ authPc = [op \in AuthOps |-> IF op = "initializeAuth" THEN "effect" ELSE "idle"]
    /\ authLocal = [op \in {"initializeAuth", "refreshUser"} |-> Null]
    /\ authLog = [thrown |-> [op \in ThrowingOps |-> Null], signedOut |-> FALSE]
    /\ rootView = RootNavigator(initialAuthState)

AuthIdle ==
    /\ AuthMounted
    /\ session = Null

\* useEffect: initializeAuth() up to its first await
InitializeAuthStart ==
    /\ authPc["initializeAuth"] = "effect"
    /\ SetAuthState(loadingState(authState))
    /\ authPc' = [authPc EXCEPT !["initializeAuth"] = "awaitUser"]
    /\ UNCHANGED <<session, authLocal, authLog>>

\* refreshUser() up to its first await
RefreshUserStart ==
    /\ authPc["refreshUser"] = "idle"
    /\ authPc' = [authPc EXCEPT !["refreshUser"] = "awaitUser"]
    /\ UNCHANGED <<authState, session, authLocal, authLog, rootView>>

\* await authService.getCurrentUser() returns: the signed-in user, or null
\* when the SDK call failed (the service catches every error)
GetCurrentUserReturns(op, sdkOk) ==
    /\ authPc[op] = "awaitUser"
    /\ authLocal' = [authLocal EXCEPT ![op] = IF sdkOk THEN session ELSE Null]
    /\ authPc' = [authPc EXCEPT ![op] = "awaitAuth"]
    /\ UNCHANGED <<authState, session, authLog, rootView>>

\* await authService.isAuthenticated() returns, and the setAuthState after it
IsAuthenticatedReturns(op, sdkOk) ==
    /\ authPc[op] = "awaitAuth"
    /\ LET isAuthenticated == sdkOk /\ session # Null
       IN  IF op = "initializeAuth"
           THEN SetAuthState([user |-> authLocal[op], isLoading |-> FALSE,
                              isAuthenticated |-> isAuthenticated, error |-> Null])
           ELSE SetAuthState([authState EXCEPT !.user = authLocal[op],
                                               !.isAuthenticated = isAuthenticated])
    /\ authPc' = [authPc EXCEPT ![op] = "idle"]
    /\ UNCHANGED <<session, authLocal, authLog>>

\* signIn, signUp, signOut, forgotPassword, confirmResetPassword up to the await
AuthOpStart(op) ==
    /\ authPc[op] = "idle"
    /\ SetAuthState(loadingState(authState))
    /\ authPc' = [authPc EXCEPT ![op] = "await"]
    /\ authLog' = [authLog EXCEPT !.thrown[op] = Null]
    /\ UNCHANGED <<session, authLocal>>

\* await authService.signIn(...) resolves
SignInResolves ==
    /\ authPc["signIn"] = "await"
    /\ session' = User
    /\ SetAuthState([user |-> User, isLoading |-> FALSE, isAuthenticated |-> TRUE,
                     error |-> Null])
    /\ authPc' = [authPc EXCEPT !["signIn"] = "idle"]
    /\ authLog' = [authLog EXCEPT !.signedOut = FALSE]
    /\ UNCHANGED authLocal

\* await authService.signOut() resolves
SignOutResolves ==
    /\ authPc["signOut"] = "await"
    /\ session' = Null
    /\ SetAuthState([user |-> Null, isLoading |-> FALSE, isAuthenticated |-> FALSE,
                     error |-> Null])
    /\ authPc' = [authPc EXCEPT !["signOut"] = "idle"]
    /\ authLog' = [authLog EXCEPT !.signedOut = TRUE]
    /\ UNCHANGED authLocal

\* await of signUp, forgotPassword or confirmForgotPassword resolves
FormOpResolves(op) ==
    /\ authPc[op] = "await"
    /\ SetAuthState([authState EXCEPT !.isLoading = FALSE, !.error = Null])
    /\ authPc' = [authPc EXCEPT ![op] = "idle"]
    /\ UNCHANGED <<session, authLocal, authLog>>

\* The awaited service call rejects: the catch block (the rethrow goes to the caller)
AuthOpRejects(op, sdkError) ==
    /\ authPc[op] = "await"
    /\ SetAuthState(failedState(authState, sdkError))
    /\ authPc' = [authPc EXCEPT ![op] = "idle"]
    /\ authLog' = [authLog EXCEPT !.thrown[op] = formatError("basic", sdkError).message]
    /\ UNCHANGED <<session, authLocal>>

----------------------------------------------------------------------------
(* EmailVerificationScreen *)

\* useState<FormState>(...); an absent string is Undefined
initialFormState(autoSent) ==
    [isSubmitting |-> FALSE, isResending |-> FALSE, isSuccess |-> FALSE,
     codeError |-> Undefined, general |-> Undefined,
     successMessage |-> IF autoSent THEN "Code sent" ELSE Undefined]

\* setFormState({isSubmitting, isResending: false, isSuccess, errors, successMessage})
newFormState(isSubmitting, isSuccess, general, successMessage) ==
    [isSubmitting |-> isSubmitting, isResending |-> FALSE, isSuccess |-> isSuccess,
     codeError |-> Undefined, general |-> general, successMessage |-> successMessage]

\* onChangeText: value.replace(/[^0-9]/g, "").slice(0, 6)
numericValue(value) ==
    LET digits == SelectSeq(value, LAMBDA ch : ch \in 48..57)
    IN  SubSeq(digits, 1, IF Len(digits) < 6 THEN Len(digits) ELSE 6)

NoSubmission == [confirm |-> "none", signIn |-> "none"]

VerifyMounted ==
    /\ code = <<>>
    /\ formState = initialFormState(routeParams.autoSent)
    /\ verifyPc = "idle"
    /\ resendPc = "idle"
    /\ submission = NoSubmission

VerifyIdle ==
    /\ routeParams = [context |-> "signup", autoSent |-> FALSE]
    /\ VerifyMounted

\* The code input's onChangeText (the input is disabled while submitting or
\* after success): setCode and clearCodeError
ChangeCode(value) ==
    /\ ~formState.isSubmitting /\ ~formState.isSuccess
    /\ code' = numericValue(value)
    /\ formState' = [formState EXCEPT !.codeError = Undefined]
    /\ UNCHANGED <<routeParams, verifyPc, resendPc, submission>>

confirmRejected_StillSubmitting(general) == newFormState(TRUE, FALSE, general, Undefined)
\* The outer catch block of handleVerifyCode
confirmRejected(general) == newFormState(FALSE, FALSE, general, Undefined)

\* handleVerifyCode up to its first await or its early return (the button and
\* the form are disabled while submitting or after success)
HandleVerifyCode ==
    /\ ~formState.isSubmitting /\ ~formState.isSuccess
    /\ verifyPc = "idle"
    /\ IF code = <<>>
       THEN /\ formState' = [formState EXCEPT !.codeError = "Enter the 6-digit code",
                                              !.general = Undefined]
            /\ UNCHANGED <<verifyPc, submission>>
       ELSE IF Len(code) # 6
       THEN /\ formState' = [formState EXCEPT !.codeError = "Code must be 6 digits",
                                              !.general = Undefined]
            /\ UNCHANGED <<verifyPc, submission>>
       ELSE /\ formState' = newFormState(TRUE, FALSE, Undefined, Undefined)
            /\ verifyPc' = "awaitConfirm"
            /\ submission' = [confirm |-> "pending", signIn |-> "none"]
    /\ UNCHANGED <<routeParams, code, resendPc>>

\* await confirmSignUp(...) resolves: the message, then signIn is invoked
ConfirmSignUpResolves ==
    /\ verifyPc = "awaitConfirm"
    /\ formState' = [formState EXCEPT !.successMessage = "Verified! Signing you in..."]
    /\ verifyPc' = "awaitSignIn"
    /\ submission' = [confirm |-> "resolved", signIn |-> "pending"]
    /\ UNCHANGED <<routeParams, code, resendPc>>

\* await confirmSignUp(...) rejects with the Error the service formatted
ConfirmSignUpRejects(sdkError) ==
    /\ verifyPc = "awaitConfirm"
    /\ formState' = confirmRejected(formatError("basic", sdkError).message)
    /\ verifyPc' = "idle"
    /\ submission' = [submission EXCEPT !.confirm = "rejected"]
    /\ UNCHANGED <<routeParams, code, resendPc>>

\* await signIn(...) resolves
VerifySignInResolves ==
    /\ verifyPc = "awaitSignIn"
    /\ formState' = newFormState(FALSE, TRUE, Undefined,
                                 IF routeParams.context = "signup"
                                 THEN "Welcome!" ELSE "Welcome back!")
    /\ verifyPc' = "idle"
    /\ submission' = [submission EXCEPT !.signIn = "resolved"]
    /\ UNCHANGED <<routeParams, code, resendPc>>

\* await signIn(...) rejects: the inner catch block
VerifySignInRejects ==
    /\ verifyPc = "awaitSignIn"
    /\ formState' = newFormState(FALSE, FALSE, "Verified! Please sign in to continue.",
                                 Undefined)
    /\ verifyPc' = "idle"
    /\ submission' = [submission EXCEPT !.signIn = "rejected"]
    /\ UNCHANGED <<routeParams, code, resendPc>>

\* handleResendCode up to its await (the button is disabled while resending,
\* submitting or after success)
HandleResendCode ==
    /\ ~formState.isResending /\ ~formState.isSubmitting /\ ~formState.isSuccess
    /\ resendPc = "idle"
    /\ formState' = [formState EXCEPT !.isResending = TRUE, !.codeError = Undefined,
                                      !.general = Undefined]
    /\ resendPc' = "await"
    /\ UNCHANGED <<routeParams, code, verifyPc, submission>>

\* await resendConfirmationCode(email) resolves
ResendResolves ==
    /\ resendPc = "await"
    /\ formState' = [formState EXCEPT !.isResending = FALSE,
                                      !.successMessage = "New code sent"]
    /\ resendPc' = "idle"
    /\ UNCHANGED <<routeParams, code, verifyPc, submission>>

\* await resendConfirmationCode(email) rejects
ResendRejects(sdkError) ==
    /\ resendPc = "await"
    /\ formState' = [formState EXCEPT !.isResending = FALSE, !.codeError = Undefined,
                                      !.general = formatError("basic", sdkError).message]
    /\ resendPc' = "idle"
    /\ UNCHANGED <<routeParams, code, verifyPc, submission>>

\* The 3000 ms timers that clear the success message
SuccessMessageTimer ==
    /\ formState.successMessage \in {"Code sent", "New code sent"}
    /\ formState' = [formState EXCEPT !.successMessage = Undefined]
    /\ UNCHANGED <<routeParams, code, verifyPc, resendPc, submission>>

----------------------------------------------------------------------------
(* handleApiRequest, reached through useApiErrorHandler.handleApiError *)

\* `API request failed: ${response.status} ${response.statusText}`
ApiFailedMessage(status) ==
    IF status = 404
    THEN \* "API request failed: 404 Not Found"
         <<65, 80, 73, 32, 114, 101, 113, 117, 101, 115, 116, 32, 102, 97, 105, 108, 101,
         100, 58, 32, 52, 48, 52, 32, 78, 111, 116, 32, 70, 111, 117, 110, 100>>
    ELSE \* "API request failed: 500 Internal Server Error"
         <<65, 80, 73, 32, 114, 101, 113, 117, 101, 115, 116, 32, 102, 97, 105, 108, 101,
         100, 58, 32, 53, 48, 48, 32, 73, 110, 116, 101, 114, 110, 97, 108, 32, 83, 101, 114,
         118, 101, 114, 32, 69, 114, 114, 111, 114>>

\* "Failed to parse API response"
ParseFailedMessage ==
    <<70, 97, 105, 108, 101, 100, 32, 116, 111, 32, 112, 97, 114, 115, 101, 32, 65, 80,
    73, 32, 114, 101, 115, 112, 111, 110, 115, 101>>

apiDefaults == [parseResponse |-> TRUE, category |-> API_ERROR, severity |-> MEDIUM]

ApiIdle ==
    /\ apiPc = "idle"
    /\ apiOptions = apiDefaults
    /\ apiOutcome = [kind |-> "pending"]
    /\ requestInvocations = 0
    /\ apiLogs = <<>>

\* handleApiRequest(request, opts) up to `await operation()` inside handleAsync
StartApiRequest(opts) ==
    /\ apiPc \in {"idle", "resolved", "rejected"}
    /\ apiOptions' = opts @@ apiDefaults
    /\ apiPc' = "awaitRequest"
    /\ apiOutcome' = [kind |-> "pending"]
    /\ requestInvocations' = 1
    /\ apiLogs' = <<>>
    /\ UNCHANGED <<now, loggerVars>>

\* The outer catch block for an error thrown inside the try block without an errorId
apiNetworkError(L, t, message) ==
    logError(L, t, message, API_ERROR, HIGH, [userAction |-> "api_request_network"])

\* request() rejects: handleAsync's catch block logs it and attaches the
\* errorId; the outer catch block sees the errorId and rethrows
ApiRequestRejects(thrown) ==
    /\ apiPc = "awaitRequest"
    /\ LET err == toError(thrown, requestInvocations)
           L == logError(Logger, now, err.message, apiOptions.category,
                         apiOptions.severity, [userAction |-> "async_operation"])
       IN  /\ SetLogger(L)
           /\ apiOutcome' = [kind |-> "rejected",
                             error |-> attachErrorId(err, L.errorId)]
           /\ apiLogs' = Append(apiLogs, "async_operation")
    /\ apiPc' = "rejected"
    /\ UNCHANGED <<now, apiOptions, requestInvocations>>

\* request() resolves with a Response: the !response.ok branch, or on to
\* response.json(), or the response itself
ApiRequestResolves(response) ==
    /\ apiPc = "awaitRequest"
    /\ IF ~response.ok
       THEN LET message == ApiFailedMessage(response.status)
                L1 == logError(Logger, now, message, API_ERROR, HIGH,
                               [userAction |-> "api_request"])
                L2 == apiNetworkError(L1, now, message)
            IN  /\ SetLogger(L2)
                /\ apiLogs' = apiLogs \o <<"api_request", "api_request_network">>
                /\ apiPc' = "rejected"
                /\ apiOutcome' =
                       [kind |-> "rejected",
                        error |-> [toError([isError |-> TRUE, text |-> message], 0)
                                       EXCEPT !.origin = response.status]]
       ELSE IF apiOptions.parseResponse
       THEN /\ apiPc' = "awaitJson"
            /\ UNCHANGED <<loggerVars, apiOutcome, apiLogs>>
       ELSE /\ apiPc' = "resolved"
            /\ apiOutcome' = [kind |-> "resolved", value |-> "response"]
            /\ UNCHANGED <<loggerVars, apiLogs>>
    /\ UNCHANGED <<now, apiOptions, requestInvocations>>

\* await response.json() resolves
ApiJsonResolves ==
    /\ apiPc = "awaitJson"
    /\ apiPc' = "resolved"
    /\ apiOutcome' = [kind |-> "resolved", value |-> "json"]
    /\ UNCHANGED <<now, loggerVars, apiOptions, requestInvocations, apiLogs>>

\* await response.json() rejects: the parse error is logged and thrown, and
\* the outer catch block logs it again
ApiJsonRejects ==
    /\ apiPc = "awaitJson"
    /\ LET L1 == logError(Logger, now, ParseFailedMessage, API_ERROR, MEDIUM,
                          [userAction |-> "api_response_parse"])
           L2 == apiNetworkError(L1, now, ParseFailedMessage)
       IN  /\ SetLogger(L2)
           /\ apiLogs' = apiLogs \o <<"api_response_parse", "api_request_network">>
    /\ apiPc' = "rejected"
    /\ apiOutcome' = [kind |-> "rejected",
                      error |-> toError([isError |-> TRUE, text |-> ParseFailedMessage], 0)]
    /\ UNCHANGED <<now, apiOptions, requestInvocations>>

\* Nothing outside the logger and the handlers is in use
ScreenIdle == AuthIdle /\ VerifyIdle /\ ApiIdle

----------------------------------------------------------------------------
(* Throttle: logError calls with colliding and distinct messages over time *)

MaxCalls == 5
MaxTime == 11000
Jumps == {2500, 5001}

vars == <<now, loggerVars, retryVars, boundaryVars, formatVars, hookVars, asyncVars, screenVars>>

InitThrottle ==
    /\ now = 0
    /\ LoggerInit
    /\ RetryIdle
    /\ BoundaryInit
    /\ FormatInit
    /\ HookInit
    /\ AsyncIdle
    /\ ScreenIdle

ThrottleLog ==
    \E m \in Messages :
        /\ idSeq < MaxCalls
        /\ LogErrorCall(m, UI_ERROR, MEDIUM)
        /\ UNCHANGED <<retryVars, boundaryVars, formatVars, hookVars, asyncVars, screenVars>>

ThrottleTick ==
    \E d \in Jumps :
        /\ now + d <= MaxTime
        /\ Tick(d)
        /\ UNCHANGED <<retryVars, boundaryVars, formatVars, hookVars, asyncVars, screenVars>>

NextThrottle == ThrottleLog \/ ThrottleTick

SpecThrottle == InitThrottle /\ [][NextThrottle]_vars

\* C5: at most 3 errors with the same message are recorded within any interval
\* of 5000 ms: four successive recorded errors of one message always span
\* more than the throttle window.
C5_AtMostThreePerWindow ==
    \A m \in DOMAIN passTimes :
        Len(passTimes[m]) = 4 => passTimes[m][4] - passTimes[m][1] > throttleWindow

\* C5 witness: a fourth identical error inside the window has been dropped.
C5_Witness ==
    /\ lastCall.throttled
    /\ lastCall.message \in DOMAIN passTimes
    /\ Len(passTimes[lastCall.message]) = 3
    /\ lastCall.at - passTimes[lastCall.message][1] <= throttleWindow

\* C6 as stated: once 5000 ms have passed (read leniently: strictly more than
\* 5000 ms) since the occurrence that opened the window of a message, the next
\* identical error is recorded and the count restarts at 1.
C6_FixedWindowFromFirst ==
    (/\ lastCall.known
     /\ lastCall.prevWindow.by = lastCall.message
     /\ lastCall.at - lastCall.prevWindow.at > throttleWindow)
    => (/\ ~lastCall.throttled
        /\ errorCounts[hashMessage(lastCall.message)].count = 1)

\* C6 amended: the window is measured from the previous occurrence of the key
\* (every occurrence, throttled or not, refreshes lastSeen).  More than 5000 ms
\* after the previous occurrence the error is recorded and the count restarts
\* at 1; otherwise the count grows by one and the error is recorded exactly
\* when the count is at most 3.
C6_WindowFromLastSeen ==
    lastCall.known =>
        LET entry == errorCounts[hashMessage(lastCall.message)]
        IN  /\ entry.lastSeen = lastCall.at
            /\ IF lastCall.at - lastCall.prevLastSeen > throttleWindow
               THEN ~lastCall.throttled /\ entry.count = 1
               ELSE /\ entry.count = lastCall.prevCount + 1
                    /\ lastCall.throttled <=> entry.count > maxIdenticalErrors

\* C6 witness: after a throttled burst, an error arriving more than 5000 ms
\* after the previous identical one restarted the count.
C6_Witness ==
    /\ lastCall.known
    /\ lastCall.prevCount > maxIdenticalErrors
    /\ lastCall.prevWindow.by = lastCall.message
    /\ lastCall.at - lastCall.prevLastSeen > throttleWindow
    /\ ~lastCall.throttled

\* C22: an error is throttled only if an error with the same message was
\* passed to logError within the preceding 5000 ms (different messages never
\* share a throttle counter).
C22_ThrottledOnlyAfterSameMessage ==
    lastCall.throttled =>
        /\ lastCall.prevSameAt >= 0
        /\ lastCall.at - lastCall.prevSameAt <= throttleWindow

\* C22 failing state: the first error ever logged with its message was
\* throttled, the counter of its hash key having been used up by errors with
\* another message of the same hash.
C22_Witness ==
    /\ lastCall.throttled
    /\ lastCall.prevSameAt = -1
    /\ lastCall.message \notin DOMAIN passTimes
    /\ lastCall.prevCount = maxIdenticalErrors
    /\ \E m \in DOMAIN passTimes :
          /\ m # lastCall.message
          /\ hashMessage(m) = hashMessage(lastCall.message)

\* C23: a logError call that throttles its error returns a new error id and
\* leaves the queue and getErrorStats as they were; of the logger's state only
\* the counter and the last-seen time of the message's key change.
C23_ThrottledCallLeavesQueue ==
    [][(idSeq' # idSeq /\ lastCall'.throttled) =>
         LET key == hashMessage(lastCall'.message)
         IN  /\ idSeq' = idSeq + 1
             /\ \A i \in 1..Len(errorQueue) : errorQueue[i].id # idSeq'
             /\ errorQueue' = errorQueue
             /\ getErrorStats(errorQueue') = getErrorStats(errorQueue)
             /\ key \in DOMAIN errorCounts
             /\ errorCounts' =
                    [errorCounts EXCEPT ![key] = [count |-> @.count + 1, lastSeen |-> now']]]_vars

\* C23 witness: a call was throttled while the queue held the three recorded
\* errors of its message.
C23_Witness ==
    /\ lastCall.throttled
    /\ idSeq = 4
    /\ Len(errorQueue) = 3
    /\ getErrorStats(errorQueue).totalErrors = 3
    /\ errorCounts[hashMessage(lastCall.message)] = [count |-> 4, lastSeen |-> lastCall.at]

----------------------------------------------------------------------------
(* Queue: a long run of errors with distinct messages, and clearQueue *)

NumQueueMessages == 34
MaxQueueCalls == 105

\* The message of the k-th error of the run: NumQueueMessages distinct
\* one-character messages, used in turn.
QueueMessage(k) == <<65 + (k % NumQueueMessages)>>

InitQueue ==
    /\ now = 0
    /\ LoggerInit
    /\ RetryIdle
    /\ BoundaryInit
    /\ FormatInit
    /\ HookInit
    /\ AsyncIdle
    /\ ScreenIdle

QueueLog ==
    /\ idSeq < MaxQueueCalls
    /\ LogErrorCall(QueueMessage(idSeq + 1), API_ERROR, HIGH)
    /\ UNCHANGED <<retryVars, boundaryVars, formatVars, hookVars, asyncVars, screenVars>>

QueueClear == ClearQueue /\ UNCHANGED <<retryVars, boundaryVars, formatVars, hookVars, asyncVars, screenVars>>

NextQueue == QueueLog \/ QueueClear

SpecQueue == InitQueue /\ [][NextQueue]_vars

\* C7: the queue never holds more than 100 entries, and an error recorded
\* while it holds 100 removes exactly the oldest entry and goes to the end,
\* the others keeping their order; below 100 it is appended.
C7_QueueCapFifo ==
    /\ [](Len(errorQueue) <= maxQueueSize)
    /\ [][(idSeq' # idSeq /\ ~lastCall'.throttled) =>
            /\ Len(errorQueue') >= 1
            /\ errorQueue'[Len(errorQueue')].id = idSeq'
            /\ SubSeq(errorQueue', 1, Len(errorQueue') - 1) =
                  IF Len(errorQueue) = maxQueueSize
                  THEN Tail(errorQueue) ELSE errorQueue]_vars

\* C7 witness: an error has just been recorded into a queue that held 100.
C7_Witness ==
    /\ lastCall.prevLen = maxQueueSize
    /\ ~lastCall.throttled
    /\ Len(errorQueue) = maxQueueSize
    /\ errorQueue[maxQueueSize].id = idSeq
    /\ errorQueue[1].id = idSeq - maxQueueSize + 1

----------------------------------------------------------------------------
(* Retry: one handleAsyncWithRetry call, its operation failing or succeeding *)

MaxRetriesBound == 3

\* retryConfig arguments: omitted, maxRetries alone (-1: a negative value),
\* and full configurations with small and large caps, multipliers 0, 1, 2
\* and a negative base delay.
RetryConfigInputs ==
    {<<>>}
    \cup {[maxRetries |-> n] : n \in -1..MaxRetriesBound}
    \cup {[maxRetries |-> MaxRetriesBound, baseDelay |-> b, maxDelay |-> 1500,
           backoffMultiplier |-> k] : b \in {-1, 1000}, k \in {0, 1, 2}}

RetryOptionInputs ==
    {<<>>, [severity |-> CRITICAL], [customMessage |-> CustomMessage],
     [severity |-> CRITICAL, customMessage |-> CustomMessage]}

\* What operation() may throw: an Error, or a string (not an Error).
ThrownValues == {[isError |-> TRUE, text |-> MsgAa], [isError |-> FALSE, text |-> MsgBB]}

\* How long operation() takes to settle.
OpDurations == {0, 6000}

InitRetry ==
    /\ now = 0
    /\ LoggerInit
    /\ RetryIdle
    /\ BoundaryInit
    /\ FormatInit
    /\ HookInit
    /\ AsyncIdle
    /\ ScreenIdle

RetryStart ==
    \E rc \in RetryConfigInputs, opts \in RetryOptionInputs :
        StartRetry(rc, opts) /\ UNCHANGED <<boundaryVars, formatVars, hookVars, asyncVars, screenVars>>

RetryResolves ==
    \E dur \in OpDurations :
        OperationResolves("result", dur) /\ UNCHANGED <<boundaryVars, formatVars, hookVars, asyncVars, screenVars>>

RetryRejects ==
    \E thrown \in ThrownValues, dur \in OpDurations :
        OperationRejects(thrown, dur) /\ UNCHANGED <<boundaryVars, formatVars, hookVars, asyncVars, screenVars>>

RetryDelayElapses == DelayElapses /\ UNCHANGED <<boundaryVars, formatVars, hookVars, asyncVars, screenVars>>

NextRetry == RetryStart \/ RetryResolves \/ RetryRejects \/ RetryDelayElapses

SpecRetry == InitRetry /\ [][NextRetry]_vars

\* C1: for maxRetries >= 0 a call invokes the operation at least once and at
\* most maxRetries + 1 times, and never again once an invocation succeeded.
C1_InvocationBounds ==
    (rpc # "idle" /\ config.maxRetries >= 0) =>
        /\ invocations >= 1
        /\ invocations <= config.maxRetries + 1
        /\ successAt # 0 => invocations = successAt /\ rpc = "resolved"

\* C1 witness: the call resolved on its third invocation, short of the maximum.
C1_Witness ==
    /\ rpc = "resolved"
    /\ config.maxRetries = 3
    /\ successAt = 3
    /\ invocations = 3

\* C2: when all maxRetries + 1 invocations failed the call has rejected, with
\* the error of the last invocation (a new Error around it when the thrown
\* value was not an Error), and has not resolved.
C2_RejectsWithLastError ==
    (config.maxRetries >= 0 /\ Len(thrownLog) = config.maxRetries + 1) =>
        /\ rpc = "rejected"
        /\ outcome.kind = "rejected"
        /\ outcome.error.origin = config.maxRetries + 1
        /\ outcome.error.message = thrownLog[Len(thrownLog)].text
        /\ outcome.error.wrapped = ~thrownLog[Len(thrownLog)].isError

\* C2 witness: retries exhausted, the last invocation threw a string ("BB")
\* after an earlier one threw an Error with another message.
C2_Witness ==
    /\ rpc = "rejected"
    /\ Len(thrownLog) = 3
    /\ thrownLog[1].isError /\ thrownLog[1].text = MsgAa
    /\ ~thrownLog[3].isError
    /\ outcome.error.message = MsgBB

\* C3 as stated: the wait after a failed attempt that is not the last is
\* min(baseDelay * backoffMultiplier^attempt, maxDelay), attempt being the
\* counter's value when the wait is computed.
C3_DelayExponentIsAttempt ==
    rpc = "delaying" =>
        waits[Len(waits)] =
            Min(config.baseDelay * Pow(config.backoffMultiplier, attempt), config.maxDelay)

\* C3 amended: the k-th wait of a call (after the k-th failure, the counter
\* being k) is min(baseDelay * backoffMultiplier^(k - 1), maxDelay).
C3_DelayExponentIsAttemptMinusOne ==
    /\ rpc = "delaying" => Len(waits) = attempt
    /\ \A k \in 1..Len(waits) :
          waits[k] =
            Min(config.baseDelay * Pow(config.backoffMultiplier, k - 1), config.maxDelay)

\* C3 witness: default configuration, waiting after the second failure.
C3_Witness ==
    /\ rpc = "delaying"
    /\ config = defaultRetryConfig
    /\ attempt = 2
    /\ waits = <<1000, 2000>>

\* C4: every wait is at most maxDelay, and with backoffMultiplier >= 1 and
\* baseDelay >= 0 the waits of a call never decrease.
C4_DelaysCappedAndMonotone ==
    /\ \A k \in 1..Len(waits) : waits[k] <= config.maxDelay
    /\ (config.backoffMultiplier >= 1 /\ config.baseDelay >= 0) =>
          \A k \in 1..(Len(waits) - 1) : waits[k] <= waits[k + 1]

\* C4 witness: the waits grew and then stayed at the cap.
C4_Witness ==
    /\ Len(waits) = 3
    /\ waits[1] < waits[2]
    /\ waits[2] = config.maxDelay
    /\ waits[3] = config.maxDelay

\* The call rejected because every one of its maxRetries + 1 invocations failed.
Exhausted ==
    /\ rpc = "rejected"
    /\ config.maxRetries >= 0
    /\ Len(thrownLog) = config.maxRetries + 1

\* C15: a call whose invocations all failed made maxRetries + 1 invocations and
\* waited exactly maxRetries times, the k-th wait being
\* min(baseDelay * backoffMultiplier^(k - 1), maxDelay), so none after the final
\* failure; under the default configuration that is 4 invocations and waits of
\* 1000, 2000 and 4000 ms.
C15_WaitsOfAnExhaustedCall ==
    Exhausted =>
        /\ invocations = config.maxRetries + 1
        /\ Len(waits) = config.maxRetries
        /\ \A k \in 1..config.maxRetries :
              waits[k] =
                Min(config.baseDelay * Pow(config.backoffMultiplier, k - 1), config.maxDelay)
        /\ config = defaultRetryConfig =>
              invocations = 4 /\ waits = <<1000, 2000, 4000>>

\* C15 witness: the default configuration, exhausted.
C15_Witness ==
    /\ Exhausted
    /\ config = defaultRetryConfig
    /\ invocations = 4
    /\ waits = <<1000, 2000, 4000>>

\* The scheduling the termination claim assumes: a pending invocation settles
\* and a pending timer fires.
FairStart ==
    \E rc \in RetryConfigInputs :
        StartRetry(rc, <<>>) /\ UNCHANGED <<boundaryVars, formatVars, hookVars, asyncVars, screenVars>>

FairResolves ==
    OperationResolves("result", 0) /\ UNCHANGED <<boundaryVars, formatVars, hookVars, asyncVars, screenVars>>

FairRejects ==
    \E thrown \in ThrownValues :
        OperationRejects(thrown, 0) /\ UNCHANGED <<boundaryVars, formatVars, hookVars, asyncVars, screenVars>>

FairDelayElapses == DelayElapses /\ UNCHANGED <<boundaryVars, formatVars, hookVars, asyncVars, screenVars>>

NextRetryFair == FairStart \/ FairResolves \/ FairRejects \/ FairDelayElapses

SpecRetryFair ==
    /\ InitRetry
    /\ [][NextRetryFair]_vars
    /\ WF_vars(FairResolves \/ FairRejects)
    /\ WF_vars(FairDelayElapses)

\* C16: a call that has started eventually settles, and for maxRetries >= 0 it
\* never makes more than maxRetries + 1 invocations nor more than maxRetries
\* waits.
C16_EventuallySettles ==
    /\ (rpc \in {"awaitOp", "delaying"}) ~> (rpc \in {"resolved", "rejected"})
    /\ [](config.maxRetries >= 0 =>
            /\ invocations <= config.maxRetries + 1
            /\ Len(waits) <= config.maxRetries)

\* C16 witness: a call settled after the largest number of invocations and waits.
C16_Witness ==
    /\ rpc = "resolved"
    /\ config.maxRetries = MaxRetriesBound
    /\ invocations = MaxRetriesBound + 1
    /\ Len(waits) = MaxRetriesBound

SameMessageEveryAttempt ==
    \A k \in 1..Len(thrownLog) : thrownLog[k].text = thrownLog[1].text

\* The queue holds the entry logged for the final failed attempt.
FinalAttemptQueued ==
    \E i \in 1..Len(errorQueue) :
        /\ "isLastAttempt" \in DOMAIN errorQueue[i].context
        /\ errorQueue[i].context.isLastAttempt
        /\ errorQueue[i].severity = options.severity

\* C19: after a call under the default configuration whose invocations all
\* failed with the same message, the queue holds the entry of the final
\* attempt, with isLastAttempt true and the caller's severity.
C19_FinalAttemptQueued ==
    (Exhausted /\ config = defaultRetryConfig /\ SameMessageEveryAttempt) =>
        FinalAttemptQueued

\* C19 witness: the four failures came within the throttle window of one
\* another, the fourth logError call was throttled and the queue holds only the
\* three LOW entries.
C19_Witness ==
    /\ Exhausted
    /\ config = defaultRetryConfig
    /\ SameMessageEveryAttempt
    /\ lastCall.throttled
    /\ lastCall.context.isLastAttempt
    /\ Len(errorQueue) = 3
    /\ \A i \in 1..3 : errorQueue[i].severity = LOW

\* C20: the error of an exhausted call without customMessage says
\* 'Operation failed after N attempts' with N the number of invocations made,
\* and its retryAttempts is the number of retries made.
C20_AttemptsReportedTruthfully ==
    (Exhausted /\ options.customMessage = NoMessage) =>
        /\ outcome.error.customMessage = FailedAfter(invocations)
        /\ outcome.error.retryAttempts = invocations - 1

C20_Witness ==
    /\ Exhausted
    /\ options.customMessage = NoMessage
    /\ invocations = 4
    /\ outcome.error.customMessage = FailedAfter(3)
    /\ outcome.error.retryAttempts = 3

----------------------------------------------------------------------------
(* Boundary: descendants throwing during render, and the retry button *)

MaxThrows == 4

\* What a descendant throws: Errors, or null (throw accepts any value)
ThrownByChild == {JsError(MsgAa), JsError(MsgC), JsNull}

InitBoundary ==
    /\ now = 0
    /\ LoggerInit
    /\ RetryIdle
    /\ BoundaryInit
    /\ FormatInit
    /\ HookInit
    /\ AsyncIdle
    /\ ScreenIdle

BoundaryThrow ==
    \E thrown \in ThrownByChild :
        /\ bThrows < MaxThrows
        /\ ChildThrows(thrown)
        /\ UNCHANGED <<retryVars, formatVars, hookVars, asyncVars, screenVars>>

BoundaryRender == RenderAfterError /\ UNCHANGED <<retryVars, formatVars, hookVars, asyncVars, screenVars>>

BoundaryDidCatch == ComponentDidCatch /\ UNCHANGED <<retryVars, formatVars, hookVars, asyncVars, screenVars>>

BoundaryRetry == HandleRetry /\ UNCHANGED <<retryVars, formatVars, hookVars, asyncVars, screenVars>>

BoundaryTick ==
    /\ now + 2500 <= MaxTime
    /\ Tick(2500)
    /\ UNCHANGED <<retryVars, boundaryVars, formatVars, hookVars, asyncVars, screenVars>>

NextBoundary ==
    BoundaryThrow \/ BoundaryRender \/ BoundaryDidCatch \/ BoundaryRetry \/ BoundaryTick

SpecBoundary == InitBoundary /\ [][NextBoundary]_vars

\* C9: after a descendant threw during render the boundary renders the
\* fallback UI, never its children, until the retry action is invoked: once
\* React has re-rendered the boundary with hasError set, render() has returned
\* the fallback.
C9_FallbackUntilRetry ==
    (bstate.hasError /\ bpc # "derived") => lastRender = "fallback"

\* C9 failing state: the boundary caught null, render() handed back the
\* children and the boundary failed to contain the error.
C9_Witness ==
    /\ bstate.hasError
    /\ bstate.error = JsNull
    /\ lastRender = "children"
    /\ bpc = "failed"

\* C9, the retry half, which the code does satisfy: right after the retry
\* action the state is the initial one and the children are rendered.
C9_RetryResets ==
    [][(bpc = "rendered" /\ lastRender = "fallback" /\ bstate' # bstate /\ bpc' = "rendered")
        => (bstate' = boundaryInitialState /\ lastRender' = "children")]_vars

\* C9 for Error values: the fallback is rendered whenever the caught value is truthy.
C9_FallbackForErrors ==
    (bstate.hasError /\ bpc # "derived" /\ Truthy(bstate.error)) => lastRender = "fallback"

----------------------------------------------------------------------------
(* Format: formatError applied to errors of the identity provider's SDK *)

Services == {"basic", "extended"}

\* code, name and message of the error: absent, empty, in both tables, in the
\* extended table only, in no table
FormatErrorInputs ==
    [code : {Undefined, "", "NotAuthorizedException", "InvalidParameterException",
             "UnknownException"},
     name : {Undefined, "UserNotFoundException", "ResourceNotFoundException", "Error"},
     message : {Undefined, "", "User does not exist."}]

InitFormat ==
    /\ now = 0
    /\ LoggerInit
    /\ RetryIdle
    /\ BoundaryInit
    /\ FormatInit
    /\ HookInit
    /\ AsyncIdle
    /\ ScreenIdle

FormatCall ==
    \E service \in Services, error \in FormatErrorInputs :
        /\ FormatError(service, error)
        /\ UNCHANGED <<now, loggerVars, retryVars, boundaryVars, hookVars, asyncVars, screenVars>>

NextFormat == FormatCall

SpecFormat == InitFormat /\ [][NextFormat]_vars

\* C10: formatError returns the table entry for error.code (for error.name
\* when code is absent or empty) when the table has that key, else the
\* original message when it is non-empty, else the generic fallback string.
C10_StaticLookup ==
    fmtIn.service \in Services =>
        LET e == fmtIn.error
            key == IF e.code \notin {Undefined, ""} THEN e.code ELSE e.name
            table == errorMessages(fmtIn.service)
        IN  fmtOut.message =
              CASE key \in DOMAIN table -> table[key]
                [] key \notin DOMAIN table /\ e.message \notin {Undefined, ""} -> e.message
                [] OTHER -> fallbackMessage(fmtIn.service)

\* C10 witness: code is present but in no table, name is in the table: the
\* original message is returned, not the entry for name.
C10_Witness ==
    /\ fmtIn.service = "extended"
    /\ fmtIn.error.code = "UnknownException"
    /\ fmtIn.error.name = "ResourceNotFoundException"
    /\ fmtIn.error.message = "User does not exist."
    /\ fmtOut.message = "User does not exist."

----------------------------------------------------------------------------
(* Entry: every way into the logger, a few calls each *)

MaxEntryCalls == 2

HookFlavours ==
    {useErrorHandler(<<>>), useApiErrorHandler, useNavigationErrorHandler,
     usePerformanceErrorHandler}

\* logError(error, category, severity) with either argument left to its default
LogErrorInputs ==
    {[category |-> c, severity |-> MEDIUM] : c \in ErrorCategory}
        \cup {[category |-> UI_ERROR, severity |-> v] : v \in ErrorSeverity}

\* errorOptions / options of the callers: nothing, or a category and a severity
EntryOptionInputs == {<<>>, [category |-> NAVIGATION_ERROR, severity |-> CRITICAL]}

StatusCodes == {0, 200, 404, 500}

RejectionEvents ==
    {[reason |-> [present |-> FALSE, text |-> <<>>], error |-> [present |-> TRUE, text |-> MsgC]],
     [reason |-> [present |-> FALSE, text |-> <<>>], error |-> [present |-> FALSE, text |-> <<>>]]}

InitEntry ==
    /\ now = 0
    /\ LoggerInit
    /\ RetryIdle
    /\ BoundaryInit
    /\ FormatInit
    /\ hookOptions \in {useErrorHandler(<<>>), usePerformanceErrorHandler}
    /\ HookRefsInit
    /\ AsyncIdle
    /\ ScreenIdle

EntryLogError ==
    \E args \in LogErrorInputs :
        /\ idSeq < MaxEntryCalls
        /\ LogErrorCall(MsgAa, args.category, args.severity)
        /\ UNCHANGED <<retryVars, boundaryVars, formatVars, hookVars, asyncVars, screenVars>>

EntryLogApiError ==
    \E statusCode \in StatusCodes :
        /\ idSeq < MaxEntryCalls
        /\ LogApiErrorCall(MsgBB, statusCode)
        /\ UNCHANGED <<retryVars, boundaryVars, formatVars, hookVars, asyncVars, screenVars>>

EntryLogNavigationError ==
    /\ idSeq < MaxEntryCalls
    /\ LogNavigationErrorCall(MsgC)
    /\ UNCHANGED <<retryVars, boundaryVars, formatVars, hookVars, asyncVars, screenVars>>

EntryLogPerformanceError ==
    /\ idSeq < MaxEntryCalls
    /\ LogPerformanceErrorCall(MsgC)
    /\ UNCHANGED <<retryVars, boundaryVars, formatVars, hookVars, asyncVars, screenVars>>

EntryUnhandledRejection ==
    \E event \in RejectionEvents :
        /\ idSeq < MaxEntryCalls
        /\ UnhandledRejection(event)
        /\ UNCHANGED <<retryVars, boundaryVars, formatVars, hookVars, asyncVars, screenVars>>

EntryGlobalError ==
    /\ idSeq < MaxEntryCalls
    /\ GlobalError(MsgC, TRUE)
    /\ UNCHANGED <<retryVars, boundaryVars, formatVars, hookVars, asyncVars, screenVars>>

EntryHandleError ==
    \E errorOptions \in EntryOptionInputs :
        /\ idSeq < MaxEntryCalls
        /\ HandleError(MsgAa, errorOptions)
        /\ UNCHANGED <<retryVars, boundaryVars, formatVars, asyncVars, screenVars>>

EntryStartAsync ==
    \E opts \in EntryOptionInputs :
        /\ idSeq < MaxEntryCalls
        /\ StartAsync(opts)
        /\ UNCHANGED <<retryVars, boundaryVars, formatVars, hookVars, screenVars>>

EntryWrapPromise ==
    \E opts \in EntryOptionInputs :
        /\ idSeq < MaxEntryCalls
        /\ wrapPromise(opts)
        /\ UNCHANGED <<retryVars, boundaryVars, formatVars, hookVars, screenVars>>

EntryAsyncResolves ==
    AsyncResolves("result") /\ UNCHANGED <<retryVars, boundaryVars, formatVars, hookVars, screenVars>>

EntryAsyncRejects ==
    \E thrown \in ThrownValues :
    /\ idSeq < MaxEntryCalls
    /\ AsyncRejects(thrown)
    /\ UNCHANGED <<retryVars, boundaryVars, formatVars, hookVars, screenVars>>

EntryChildThrows ==
    /\ idSeq < MaxEntryCalls
    /\ bThrows = 0
    /\ ChildThrows(JsError(MsgC))
    /\ UNCHANGED <<retryVars, formatVars, hookVars, asyncVars, screenVars>>

EntryBoundaryRender ==
    RenderAfterError /\ UNCHANGED <<retryVars, formatVars, hookVars, asyncVars, screenVars>>

EntryDidCatch ==
    idSeq < MaxEntryCalls /\ ComponentDidCatch /\ UNCHANGED <<retryVars, formatVars, hookVars, asyncVars, screenVars>>

EntryStartRetry ==
    /\ idSeq < MaxEntryCalls
    /\ StartRetry([maxRetries |-> 1, baseDelay |-> 0],
                  [category |-> PERFORMANCE_ERROR, severity |-> CRITICAL,
                   customMessage |-> NoMessage])
    /\ UNCHANGED <<boundaryVars, formatVars, hookVars, asyncVars, screenVars>>

EntryRetryRejects ==
    /\ idSeq < MaxEntryCalls
    /\ OperationRejects([isError |-> TRUE, text |-> MsgBB], 0)
    /\ UNCHANGED <<boundaryVars, formatVars, hookVars, asyncVars, screenVars>>

EntryRetryResolves ==
    /\ idSeq < MaxEntryCalls
    /\ OperationResolves("result", 0)
    /\ UNCHANGED <<boundaryVars, formatVars, hookVars, asyncVars, screenVars>>

EntryDelayElapses ==
    DelayElapses /\ UNCHANGED <<boundaryVars, formatVars, hookVars, asyncVars, screenVars>>

NextEntry ==
    \/ EntryLogError \/ EntryLogApiError \/ EntryLogNavigationError
    \/ EntryLogPerformanceError \/ EntryUnhandledRejection \/ EntryGlobalError
    \/ EntryHandleError
    \/ EntryStartAsync \/ EntryAsyncResolves \/ EntryAsyncRejects
    \/ EntryChildThrows \/ EntryBoundaryRender \/ EntryDidCatch
    \/ EntryWrapPromise
    \/ EntryStartRetry \/ EntryRetryRejects \/ EntryRetryResolves \/ EntryDelayElapses

SpecEntry == InitEntry /\ [][NextEntry]_vars

C17_HandleAsyncLogsOnceAndRethrows ==
    /\ [](asyncPc # "idle" => asyncInvocations = 1)
    /\ [][(asyncPc = "awaitOp" /\ asyncPc' = "resolved") =>
            /\ asyncOutcome' = [kind |-> "resolved", value |-> "result"]
            /\ UNCHANGED <<loggerVars, asyncInvocations>>]_vars
    /\ [][(asyncPc = "awaitOp" /\ asyncPc' = "rejected") =>
            /\ idSeq' = idSeq + 1
            /\ lastCall'.context.userAction = "async_operation"
            /\ lastCall'.category = asyncOptions.category
            /\ lastCall'.severity = asyncOptions.severity
            /\ asyncOutcome'.kind = "rejected"
            /\ asyncOutcome'.error.errorId = idSeq'
            /\ asyncOutcome'.error.message = lastCall'.message
            /\ asyncOutcome'.error.origin = asyncInvocations
            /\ asyncInvocations' = asyncInvocations]_vars
    /\ [][asyncPc' # asyncPc => asyncPc \in {"idle", "awaitOp"}]_vars

\* C17 witness: a rejected call after an earlier logError call; the error
\* carries the second log id.
C17_Witness ==
    /\ asyncPc = "rejected"
    /\ asyncInvocations = 1
    /\ idSeq = 2
    /\ asyncOutcome.error.errorId = 2
    /\ lastCall.context.userAction = "async_operation"

----------------------------------------------------------------------------
(* Hook: handleError in bursts *)

MaxHookCalls == 4

HookStep == 500

MaxHookTime == 1500

InitHook ==
    /\ now = 0
    /\ LoggerInit
    /\ RetryIdle
    /\ BoundaryInit
    /\ FormatInit
    /\ hookOptions \in HookFlavours
    /\ HookRefsInit
    /\ AsyncIdle
    /\ ScreenIdle

\* errorOptions of handleError: nothing, a category and a severity, or the
\* toast switched on or off
HookOptionInputs == EntryOptionInputs \cup {[showToast |-> b] : b \in BOOLEAN}

HookHandleError ==
    \E errorOptions \in HookOptionInputs :
        /\ idSeq < MaxHookCalls
        /\ HandleError(MsgAa, errorOptions)
        /\ UNCHANGED <<retryVars, boundaryVars, formatVars, asyncVars, screenVars>>

HookClearErrorState ==
    /\ errorCountRef # 0
    /\ ClearErrorState
    /\ UNCHANGED <<retryVars, boundaryVars, formatVars, asyncVars, screenVars>>

HookTick ==
    /\ now + HookStep <= MaxHookTime
    /\ Tick(HookStep)
    /\ UNCHANGED <<retryVars, boundaryVars, formatVars, hookVars, asyncVars, screenVars>>

NextHook == HookHandleError \/ HookClearErrorState \/ HookTick

SpecHook == InitHook /\ [][NextHook]_vars

----------------------------------------------------------------------------
(* Auth: the provider's functions running concurrently *)

\* What the SDK rejects with: a service exception, or an Error without text
SdkErrors ==
    {[code |-> Undefined, name |-> "NotAuthorizedException",
      message |-> "Incorrect username or password."],
     [code |-> Undefined, name |-> "Error", message |-> ""]}

\* Everything outside the provider
AuthFrame ==
    UNCHANGED <<now, loggerVars, retryVars, boundaryVars, formatVars, hookVars, asyncVars,
                verifyVars, apiVars>>

InitAuth ==
    /\ now = 0
    /\ LoggerInit
    /\ RetryIdle
    /\ BoundaryInit
    /\ FormatInit
    /\ HookInit
    /\ AsyncIdle
    /\ AuthMounted
    /\ session \in {Null, User}
    /\ VerifyIdle
    /\ ApiIdle

AuthInitialize == InitializeAuthStart /\ AuthFrame

AuthRefresh == RefreshUserStart /\ AuthFrame

AuthGetCurrentUser ==
    \E op \in {"initializeAuth", "refreshUser"}, sdkOk \in BOOLEAN :
        GetCurrentUserReturns(op, sdkOk) /\ AuthFrame

AuthIsAuthenticated ==
    \E op \in {"initializeAuth", "refreshUser"}, sdkOk \in BOOLEAN :
        IsAuthenticatedReturns(op, sdkOk) /\ AuthFrame

AuthStart ==
    \E op \in AuthOps \ {"initializeAuth", "refreshUser"} : AuthOpStart(op) /\ AuthFrame

AuthSignInResolves == SignInResolves /\ AuthFrame

AuthSignOutResolves == SignOutResolves /\ AuthFrame

AuthFormOpResolves == \E op \in FormOps : FormOpResolves(op) /\ AuthFrame

AuthRejects ==
    \E op \in AuthOps \ {"initializeAuth", "refreshUser"}, sdkError \in SdkErrors :
        AuthOpRejects(op, sdkError) /\ AuthFrame

NextAuth ==
    \/ AuthInitialize \/ AuthRefresh \/ AuthGetCurrentUser \/ AuthIsAuthenticated
    \/ AuthStart \/ AuthSignInResolves \/ AuthSignOutResolves \/ AuthFormOpResolves
    \/ AuthRejects

SpecAuth == InitAuth /\ [][NextAuth]_vars

\* C11: RootNavigator routes purely on auth state: it shows the loading screen
\* exactly when isLoading is true, otherwise the app stack exactly when
\* isAuthenticated is true and the auth stack otherwise; the app stack is
\* never shown while isAuthenticated is false.
C11_RoutesOnAuthState ==
    /\ (rootView = "loading") <=> authState.isLoading
    /\ (rootView = "app") <=> (~authState.isLoading /\ authState.isAuthenticated)
    /\ (rootView = "auth") <=> (~authState.isLoading /\ ~authState.isAuthenticated)
    /\ rootView = "app" => authState.isAuthenticated

\* C11 witness: a signed-in user starts another operation: isAuthenticated is
\* true, isLoading is true, and the loading screen replaces the app stack.
C11_Witness ==
    /\ authState.isAuthenticated
    /\ authState.isLoading
    /\ authState.user = User
    /\ rootView = "loading"

\* C25: when the service call of signIn, signUp, signOut, forgotPassword or
\* confirmResetPassword rejects, the function throws the error to its caller,
\* sets error to the error's message and isLoading to false, and changes
\* neither user nor isAuthenticated; nor did it change them when it started.
C25_RejectionKeepsUser ==
    /\ [][\A op \in ThrowingOps :
            (authPc[op] = "await" /\ authPc'[op] = "idle" /\ authLog'.thrown[op] # Null) =>
                /\ authState'.error = authLog'.thrown[op]
                /\ ~authState'.isLoading
                /\ authState'.user = authState.user
                /\ authState'.isAuthenticated = authState.isAuthenticated]_vars
    /\ [][\A op \in ThrowingOps :
            (authPc[op] = "idle" /\ authPc'[op] = "await") =>
                /\ authState'.user = authState.user
                /\ authState'.isAuthenticated = authState.isAuthenticated]_vars
    /\ [][\A op \in ThrowingOps :
            (authPc[op] = "await" /\ authPc'[op] = "idle" /\ authState'.error # Null) =>
                authLog'.thrown[op] = authState'.error]_vars

\* C25 witness: signOut of a signed-in user was rejected; the user is still
\* signed in and the error is shown.
C25_Witness ==
    /\ authLog.thrown["signOut"] # Null
    /\ authPc["signOut"] = "idle"
    /\ authState.error = authLog.thrown["signOut"]
    /\ ~authState.isLoading
    /\ authState.user = User
    /\ authState.isAuthenticated

\* C26: from the completion of signOut until a later signIn completes,
\* isAuthenticated is false and user is null.
C26_SignedOutStays ==
    authLog.signedOut => (~authState.isAuthenticated /\ authState.user = Null)

\* C26 failing state: a refreshUser that read the user before the sign-out
\* completed after it and put the user back; nobody is signed in.
C26_Witness ==
    /\ authLog.signedOut
    /\ session = Null
    /\ authState.user = User
    /\ ~authState.isAuthenticated
    /\ authLocal["refreshUser"] = User
    /\ authPc["refreshUser"] = "idle"
    /\ authPc["initializeAuth"] = "idle"
    /\ authPc["signIn"] = "idle"

----------------------------------------------------------------------------
(* Verify: the email-verification form *)

\* Texts typed or pasted into the code input: "123", "123456", "12a345678"
CodeInputs ==
    {<<>>, <<49, 50, 51>>, <<49, 50, 51, 52, 53, 54>>,
     <<49, 50, 97, 51, 52, 53, 54, 55, 56>>}

\* What confirmSignUp and resendConfirmationCode reject with
VerifySdkErrors ==
    SdkErrors \cup {[code |-> Undefined, name |-> "CodeMismatchException",
                     message |-> "Invalid verification code provided, please try again."]}

VerifyFrame ==
    UNCHANGED <<now, loggerVars, retryVars, boundaryVars, formatVars, hookVars, asyncVars,
                authVars, apiVars>>

InitVerify ==
    /\ now = 0
    /\ LoggerInit
    /\ RetryIdle
    /\ BoundaryInit
    /\ FormatInit
    /\ HookInit
    /\ AsyncIdle
    /\ AuthIdle
    /\ routeParams \in [context : {"signup", "signin"}, autoSent : BOOLEAN]
    /\ VerifyMounted
    /\ ApiIdle

VerifyChangeCode == \E value \in CodeInputs : ChangeCode(value) /\ VerifyFrame

VerifySubmit == HandleVerifyCode /\ VerifyFrame

VerifyConfirmResolves == ConfirmSignUpResolves /\ VerifyFrame

VerifyConfirmRejects ==
    \E sdkError \in VerifySdkErrors : ConfirmSignUpRejects(sdkError) /\ VerifyFrame

VerifySignedIn == VerifySignInResolves /\ VerifyFrame

VerifySignInFailed == VerifySignInRejects /\ VerifyFrame

VerifyResend == HandleResendCode /\ VerifyFrame

VerifyResendResolves == ResendResolves /\ VerifyFrame

VerifyResendRejects ==
    \E sdkError \in VerifySdkErrors : ResendRejects(sdkError) /\ VerifyFrame

VerifyTimer == SuccessMessageTimer /\ VerifyFrame

NextVerify ==
    \/ VerifyChangeCode \/ VerifySubmit \/ VerifyConfirmResolves \/ VerifyConfirmRejects
    \/ VerifySignedIn \/ VerifySignInFailed \/ VerifyResend \/ VerifyResendResolves
    \/ VerifyResendRejects \/ VerifyTimer

SpecVerify == InitVerify /\ [][NextVerify]_vars

\* C12: in the email-verification step signIn is invoked only after
\* confirmSignUp has resolved within the same submission; when confirmSignUp
\* rejects, signIn is not invoked, the error is shown inline and the form is
\* no longer submitting.
C12_SignInOnlyAfterConfirm ==
    /\ [](submission.signIn # "none" => submission.confirm = "resolved")
    /\ [](submission.confirm = "rejected" => ~formState.isSubmitting)
    /\ [][(submission.signIn = "none" /\ submission'.signIn # "none")
            => (submission.confirm = "pending" /\ submission'.confirm = "resolved")]_vars
    /\ [][(submission.confirm = "pending" /\ submission'.confirm = "rejected")
            => /\ submission'.signIn = "none"
               /\ formState'.general \notin {Undefined, ""}
               /\ ~formState'.isSubmitting
               /\ verifyPc' = "idle"]_vars

\* C12 witness: confirmSignUp rejected with a code mismatch; the service's
\* text for it is shown and signIn was not invoked.
C12_Witness ==
    /\ submission = [confirm |-> "rejected", signIn |-> "none"]
    /\ formState.general = "Invalid verification code. Please try again."
    /\ ~formState.isSubmitting
    /\ Len(code) = 6

\* C13 as stated: handleError calls the logger exactly once per error and
\* returns that log's id, shows a toast when toasts are enabled unless it
\* throttles, and for one hook instance no more than 3 toasts are shown
\* within any interval shorter than 1000 ms.
C13_AtMostThreeToasts ==
    \A i \in 1..Len(toasts) :
        i + 3 <= Len(toasts) => toasts[i + 3].at - toasts[i].at >= 1000

\* C13 amended: one logError call per handleError call, whose id is returned;
\* a toast is shown exactly when toasts are enabled for the call and the call
\* is not suppressed; and no more than 3 toasts are shown within any interval
\* shorter than 1000 ms in which clearErrorState is not called.
C13_AtMostThreeToastsBetweenClears ==
    /\ [](\A i \in 1..Len(toasts) :
            (i + 3 <= Len(toasts) /\ toasts[i + 3].clears = toasts[i].clears)
                => toasts[i + 3].at - toasts[i].at >= 1000)
    /\ [][handled' # handled =>
            /\ idSeq' = idSeq + 1
            /\ handled'.errorId = idSeq'
            /\ lastCall'.at = now
            /\ Len(toasts') = Len(toasts) + (IF handled'.toast THEN 1 ELSE 0)
            /\ handled'.suppressed => ~handled'.toast]_vars

\* C13 witness: three toasts at one instant and a fourth call in the same
\* burst, which is logged and returns its id but shows no toast.
C13_Witness ==
    /\ Len(toasts) >= 3
    /\ toasts[3].at = toasts[1].at
    /\ toasts[3].clears = toasts[1].clears
    /\ handled.suppressed
    /\ handled.errorId = idSeq
    /\ now = toasts[3].at

----------------------------------------------------------------------------
(* Api: handleApiError calls, one after the other *)

MaxApiLogs == 3

\* The options of handleApiError: nothing, no parsing, or a severity
ApiOptionInputs == {<<>>, [parseResponse |-> FALSE], [severity |-> CRITICAL]}

\* What request() resolves with
Responses == {[ok |-> TRUE, status |-> 200], [ok |-> FALSE, status |-> 404],
              [ok |-> FALSE, status |-> 500]}

ApiFrame ==
    UNCHANGED <<retryVars, boundaryVars, formatVars, hookVars, asyncVars, authVars,
                verifyVars>>

InitApi ==
    /\ now = 0
    /\ LoggerInit
    /\ RetryIdle
    /\ BoundaryInit
    /\ FormatInit
    /\ HookInit
    /\ AsyncIdle
    /\ ScreenIdle

ApiStart ==
    \E opts \in ApiOptionInputs :
        /\ idSeq < MaxApiLogs
        /\ StartApiRequest(opts)
        /\ ApiFrame

ApiRejects == \E thrown \in ThrownValues : ApiRequestRejects(thrown) /\ ApiFrame

ApiResolves == \E response \in Responses : ApiRequestResolves(response) /\ ApiFrame

ApiParsed == ApiJsonResolves /\ ApiFrame

ApiParseFails == ApiJsonRejects /\ ApiFrame

ApiTick ==
    /\ now + 2500 <= MaxTime
    /\ Tick(2500)
    /\ UNCHANGED <<retryVars, boundaryVars, formatVars, hookVars, asyncVars, screenVars>>

NextApi == ApiStart \/ ApiRejects \/ ApiResolves \/ ApiParsed \/ ApiParseFails \/ ApiTick

SpecApi == InitApi /\ [][NextApi]_vars

\* C14: a request made through handleApiError is retried after a failure: by
\* the time the failure reaches the caller the request function has been
\* invoked again.
C14_RetriedBeforeFailure ==
    apiPc = "rejected" => requestInvocations >= 2

\* C14 failing state: request() rejected once and the caller already has the
\* rejection, after a single invocation.
C14_Witness ==
    /\ apiPc = "rejected"
    /\ apiLogs = <<"async_operation">>
    /\ apiOutcome.error.errorId = idSeq
    /\ requestInvocations = 1

\* C21: every failed handleApiRequest call made exactly one logError call for
\* its failure: an error logged inside handleApiRequest is rethrown without a
\* second log.
C21_OneLogPerApiFailure ==
    apiPc = "rejected" => Len(apiLogs) = 1

\* C21 failing state: the response was not ok; the failure was logged as
\* "api_request" and, by the outer catch block, again as "api_request_network".
C21_Witness ==
    /\ apiPc = "rejected"
    /\ apiLogs = <<"api_request", "api_request_network">>
    /\ idSeq = 2
    /\ Len(errorQueue) = 2
    /\ errorQueue[1].message = errorQueue[2].message
    /\ errorQueue[2].context.userAction = "api_request_network"

====
